---- MODULE Spec2Model ----
(***************************************************************************)
(* docker-on-top: the active-mount registry (activateVolume /             *)
(* deactivateVolume, in its three revisions), the Mount / Unmount request  *)
(* handlers that run it under the per-volume directory lock, and the       *)
(* kernel overlay mount they drive.                                        *)
(***************************************************************************)
EXTENDS Integers, Sequences, FiniteSets, TLC

(***************************************************************************)
(* Bounds of the model.                                                    *)
(***************************************************************************)
\* requests (Mount or Unmount) started in one behaviour of Spec
MaxRequests == 4
\* activate / deactivate calls made in one behaviour of SpecReg
MaxCalls == 6
\* injected I/O or collaborator failures in one behaviour
MaxFaults == 1

Workers == {"w1", "w2"}
Volumes == {"v1", "v2"}
Ids     == {"A", "B"}

\* the three revisions of the registry code
Builds == {"activemount", "part_000", "part_001"}

NoWorker == "none"
NoReq    == [op |-> "none", vol |-> "none", id |-> "none"]

(***************************************************************************)
(* The record file: encoding/json of  type activeMount struct{UsageCount}  *)
(* A payload is a sequence of JSON tokens.                                 *)
(***************************************************************************)
DigitChars == <<"0", "1", "2", "3", "4", "5", "6", "7", "8", "9">>

RECURSIVE UItoa(_)
UItoa(n) == IF n < 10 THEN <<DigitChars[n + 1]>>
            ELSE UItoa(n \div 10) \o <<DigitChars[(n % 10) + 1]>>

Itoa(n) == IF n < 0 THEN <<"-">> \o UItoa(-n) ELSE UItoa(n)

DigitVal(c) == CHOOSE d \in 0..9 : DigitChars[d + 1] = c

IsDigit(c) == \E d \in 0..9 : DigitChars[d + 1] = c

RECURSIVE UAtoi(_)
UAtoi(s) == IF Len(s) = 0 THEN 0
            ELSE 10 * UAtoi(SubSeq(s, 1, Len(s) - 1)) + DigitVal(s[Len(s)])

\* a JSON integer literal: optional minus, digits, no leading zero
IsUNumber(s) == /\ Len(s) >= 1
                /\ \A i \in 1..Len(s) : IsDigit(s[i])
                /\ (Len(s) > 1 => s[1] # "0")

IsNumber(s) == IF Len(s) >= 1 /\ s[1] = "-" THEN IsUNumber(Tail(s)) ELSE IsUNumber(s)

Atoi(s) == IF s[1] = "-" THEN 0 - UAtoi(Tail(s)) ELSE UAtoi(s)

\* json.Marshal(activeMountInfo)
Marshal(info) == <<"{", "\"UsageCount\"", ":">> \o Itoa(info.UsageCount) \o <<"}">>

\* json.Unmarshal(payload, &activeMountInfo), activeMountInfo zero-valued before
\* the call: on error the struct keeps UsageCount = 0
Unmarshal(payload) ==
    IF payload = <<"{", "}">>
    THEN [err |-> FALSE, info |-> [UsageCount |-> 0]]
    ELSE IF /\ Len(payload) >= 5
            /\ payload[1] = "{"
            /\ payload[2] = "\"UsageCount\""
            /\ payload[3] = ":"
            /\ payload[Len(payload)] = "}"
            /\ IsNumber(SubSeq(payload, 4, Len(payload) - 1))
    THEN [err |-> FALSE, info |-> [UsageCount |-> Atoi(SubSeq(payload, 4, Len(payload) - 1))]]
    ELSE [err |-> TRUE, info |-> [UsageCount |-> 0]]

\* what a failed os.WriteFile leaves when it had already truncated the file
Truncated == <<>>

(***************************************************************************)
(* The registry directory of one volume: a function from the names of the  *)
(* record files present to their payloads.                                 *)
(***************************************************************************)
EmptyDir == [x \in {} |-> <<>>]

\* os.WriteFile(activemountFilePath, payload, perm), succeeding
WriteFile(dir, id, payload) ==
    [x \in (DOMAIN dir) \cup {id} |-> IF x = id THEN payload ELSE dir[x]]

\* os.Remove with a slip: the path is the directory, every record goes
Remove_All(dir, id) == EmptyDir

\* os.Remove(activemountFilePath), succeeding
Remove(dir, id) == [x \in (DOMAIN dir) \ {id} |-> dir[x]]

\* the I/O step of a registry call that fails, if any (a call stops at its
\* first failure, so one per call is all that can be observed)
Faults == {"none", "readdir", "open", "read", "close",
           "write_open", "write_trunc", "remove"}

Min(a, b) == IF a < b THEN a ELSE b

\* lockedFile.ReadDir(n): at most n entries in any order; io.EOF when the
\* directory has none
ReadDir(dir, n, fault) ==
    IF fault = "readdir" THEN {[entries |-> <<>>, err |-> "EIO"]}
    ELSE IF DOMAIN dir = {} THEN {[entries |-> <<>>, err |-> "EOF"]}
    ELSE LET k == Min(n, Cardinality(DOMAIN dir))
         IN  {[entries |-> s, err |-> "nil"] :
                 s \in {t \in [1..k -> DOMAIN dir] :
                           \A i, j \in 1..k : i # j => t[i] # t[j]}}

Ret(dir, doFs, err) == [dir |-> dir, doFs |-> doFs, err |-> err]

\* os.WriteFile under the fault of this call: it fails before creating the file
\* ("write_open"), fails after truncating it ("write_trunc"), or succeeds
TryWriteFile(dir, id, payload, fault) ==
    [err |-> fault \in {"write_open", "write_trunc"},
     dir |-> IF fault = "write_open" THEN dir
             ELSE IF fault = "write_trunc" THEN WriteFile(dir, id, Truncated)
             ELSE WriteFile(dir, id, payload)]

\* os.Remove under the fault of this call
TryRemove(dir, id, fault) ==
    [err |-> fault = "remove",
     dir |-> IF fault = "remove" THEN dir ELSE Remove(dir, id)]

\* UsageCount++ with a slip: the count is set to one
Incr_Reset(info) == [UsageCount |-> 1]

Incr(info) == [UsageCount |-> info.UsageCount + 1]
Decr(info) == [UsageCount |-> info.UsageCount - 1]

(***************************************************************************)
(* activemount.go: read and parse errors of the record file are ignored.   *)
(***************************************************************************)
\* the record as activemount.go loads it: io.ReadAll and json.Unmarshal with
\* their errors dropped
LoadIgnoringErrors(dir, id, fault) ==
    Unmarshal(IF fault = "read" THEN Truncated ELSE dir[id]).info

\* activateVolume of activemount.go with a slip: the record on disk is not
\* loaded, every activation starts from a fresh record
activateVolumeA_NoLoad(dir, id, rd, fault) ==
    IF rd.err \notin {"nil", "EOF"} THEN Ret(dir, FALSE, "list")
    ELSE LET result == (rd.err = "EOF") IN
         IF fault = "open" THEN Ret(dir, FALSE, "open")
         ELSE LET activeMountInfo == [UsageCount |-> 0]
                  w == TryWriteFile(dir, id, Marshal(Incr(activeMountInfo)), fault)
              IN  IF w.err THEN Ret(w.dir, FALSE, "write")
                  ELSE Ret(w.dir, result, "nil")

activateVolumeA(dir, id, rd, fault) ==
    IF rd.err \notin {"nil", "EOF"} THEN Ret(dir, FALSE, "list")
    ELSE LET result == (rd.err = "EOF") IN
         IF fault = "open" THEN Ret(dir, FALSE, "open")
         ELSE LET activeMountInfo == IF id \in DOMAIN dir
                                     THEN LoadIgnoringErrors(dir, id, fault)
                                     ELSE [UsageCount |-> 0]
                  w == TryWriteFile(dir, id, Marshal(Incr(activeMountInfo)), fault)
              IN  IF w.err THEN Ret(w.dir, FALSE, "write")
                  ELSE Ret(w.dir, result, "nil")

\* DeactivateVolume of activemount.go with a slip: a record that reaches zero
\* is written back instead of being removed
DeactivateVolumeA_KeepZero(dir, id, rd, fault) ==
    IF rd.err = "EOF" THEN Ret(dir, TRUE, "empty")
    ELSE IF rd.err # "nil" THEN Ret(dir, FALSE, "list")
    ELSE LET otherVolumesPresent == Len(rd.entries) > 1 \/ rd.entries[1] # id IN
         IF fault = "open" THEN Ret(dir, FALSE, "open")
         ELSE IF id \notin DOMAIN dir THEN Ret(dir, ~otherVolumesPresent, "missing")
         ELSE LET activeMountInfo == Decr(LoadIgnoringErrors(dir, id, fault)) IN
              LET w == TryWriteFile(dir, id, Marshal(activeMountInfo), fault)
              IN  IF w.err THEN Ret(w.dir, FALSE, "write")
                  ELSE Ret(w.dir, activeMountInfo.UsageCount = 0 /\ ~otherVolumesPresent, "nil")

\* DeactivateVolume of activemount.go with a slip: a record that reaches zero
\* returns true whether or not other records are present
DeactivateVolumeA_IgnoreOthers(dir, id, rd, fault) ==
    IF rd.err = "EOF" THEN Ret(dir, TRUE, "empty")
    ELSE IF rd.err # "nil" THEN Ret(dir, FALSE, "list")
    ELSE LET otherVolumesPresent == Len(rd.entries) > 1 \/ rd.entries[1] # id IN
         IF fault = "open" THEN Ret(dir, FALSE, "open")
         ELSE IF id \notin DOMAIN dir THEN Ret(dir, ~otherVolumesPresent, "missing")
         ELSE LET activeMountInfo == Decr(LoadIgnoringErrors(dir, id, fault)) IN
              IF activeMountInfo.UsageCount = 0
              THEN LET r == TryRemove(dir, id, fault)
                   IN  IF r.err THEN Ret(r.dir, FALSE, "delete")
                       ELSE Ret(r.dir, TRUE, "nil")
              ELSE LET w == TryWriteFile(dir, id, Marshal(activeMountInfo), fault)
                   IN  IF w.err THEN Ret(w.dir, FALSE, "write")
                       ELSE Ret(w.dir, FALSE, "nil")

DeactivateVolumeA(dir, id, rd, fault) ==
    IF rd.err = "EOF" THEN Ret(dir, TRUE, "empty")
    ELSE IF rd.err # "nil" THEN Ret(dir, FALSE, "list")
    ELSE LET otherVolumesPresent == Len(rd.entries) > 1 \/ rd.entries[1] # id IN
         IF fault = "open" THEN Ret(dir, FALSE, "open")
         ELSE IF id \notin DOMAIN dir THEN Ret(dir, ~otherVolumesPresent, "missing")
         ELSE LET activeMountInfo == Decr(LoadIgnoringErrors(dir, id, fault)) IN
              IF activeMountInfo.UsageCount = 0
              THEN LET r == TryRemove(dir, id, fault)
                   IN  IF r.err THEN Ret(r.dir, FALSE, "delete")
                       ELSE Ret(r.dir, ~otherVolumesPresent, "nil")
              ELSE LET w == TryWriteFile(dir, id, Marshal(activeMountInfo), fault)
                   IN  IF w.err THEN Ret(w.dir, FALSE, "write")
                       ELSE Ret(w.dir, FALSE, "nil")

(***************************************************************************)
(* part_000: os.ReadFile; a parse error is fatal; an empty directory at    *)
(* deactivation is a warning, not an error.                                *)
(***************************************************************************)
\* activateVolume of part_000 with a slip: the two branches on the listing
\* are swapped
activateVolume0_Swapped(dir, id, rd, fault) ==
    IF rd.err \notin {"nil", "EOF"} THEN Ret(dir, FALSE, "list")
    ELSE LET doMountFs == (rd.err = "nil") IN
         IF fault \in {"open", "read"} THEN Ret(dir, FALSE, "read")
         ELSE LET u == IF id \in DOMAIN dir THEN Unmarshal(dir[id])
                       ELSE [err |-> FALSE, info |-> [UsageCount |-> 0]]
              IN  IF u.err THEN Ret(dir, FALSE, "invalid")
                  ELSE LET w == TryWriteFile(dir, id, Marshal(Incr(u.info)), fault)
                       IN  IF w.err THEN Ret(w.dir, FALSE, "write")
                           ELSE Ret(w.dir, doMountFs, "nil")

activateVolume0(dir, id, rd, fault) ==
    IF rd.err \notin {"nil", "EOF"} THEN Ret(dir, FALSE, "list")
    ELSE LET doMountFs == (rd.err = "EOF") IN
         IF fault \in {"open", "read"} THEN Ret(dir, FALSE, "read")
         ELSE LET u == IF id \in DOMAIN dir THEN Unmarshal(dir[id])
                       ELSE [err |-> FALSE, info |-> [UsageCount |-> 0]]
              IN  IF u.err THEN Ret(dir, FALSE, "invalid")
                  ELSE LET w == TryWriteFile(dir, id, Marshal(Incr(u.info)), fault)
                       IN  IF w.err THEN Ret(w.dir, FALSE, "write")
                           ELSE Ret(w.dir, doMountFs, "nil")

\* deactivateVolume of part_000 with a slip: a record that reaches zero is
\* written back instead of being removed
deactivateVolume0_KeepZero(dir, id, rd, fault) ==
    IF rd.err = "EOF" THEN Ret(dir, TRUE, "nil")
    ELSE IF rd.err # "nil" THEN Ret(dir, FALSE, "list")
    ELSE LET otherVolumesPresent == Len(rd.entries) > 1 \/ rd.entries[1] # id IN
         IF fault \in {"open", "read"} THEN Ret(dir, FALSE, "read")
         ELSE IF id \notin DOMAIN dir THEN Ret(dir, ~otherVolumesPresent, "missing")
         ELSE LET u == Unmarshal(dir[id]) IN
              IF u.err THEN Ret(dir, FALSE, "invalid")
              ELSE LET activeMountInfo == Decr(u.info) IN
                   LET w == TryWriteFile(dir, id, Marshal(activeMountInfo), fault)
                   IN  IF w.err THEN Ret(w.dir, FALSE, "write")
                       ELSE Ret(w.dir, activeMountInfo.UsageCount = 0 /\ ~otherVolumesPresent, "nil")

\* deactivateVolume of part_000 with a slip: a record that stays above zero
\* returns !otherVolumesPresent instead of false
deactivateVolume0_SoleEntry(dir, id, rd, fault) ==
    IF rd.err = "EOF" THEN Ret(dir, TRUE, "nil")
    ELSE IF rd.err # "nil" THEN Ret(dir, FALSE, "list")
    ELSE LET otherVolumesPresent == Len(rd.entries) > 1 \/ rd.entries[1] # id IN
         IF fault \in {"open", "read"} THEN Ret(dir, FALSE, "read")
         ELSE IF id \notin DOMAIN dir THEN Ret(dir, ~otherVolumesPresent, "missing")
         ELSE LET u == Unmarshal(dir[id]) IN
              IF u.err THEN Ret(dir, FALSE, "invalid")
              ELSE LET activeMountInfo == Decr(u.info) IN
                   IF activeMountInfo.UsageCount = 0
                   THEN LET r == TryRemove(dir, id, fault)
                        IN  IF r.err THEN Ret(r.dir, FALSE, "delete")
                            ELSE Ret(r.dir, ~otherVolumesPresent, "nil")
                   ELSE LET w == TryWriteFile(dir, id, Marshal(activeMountInfo), fault)
                        IN  IF w.err THEN Ret(w.dir, FALSE, "write")
                            ELSE Ret(w.dir, ~otherVolumesPresent, "nil")

deactivateVolume0(dir, id, rd, fault) ==
    IF rd.err = "EOF" THEN Ret(dir, TRUE, "nil")
    ELSE IF rd.err # "nil" THEN Ret(dir, FALSE, "list")
    ELSE LET otherVolumesPresent == Len(rd.entries) > 1 \/ rd.entries[1] # id IN
         IF fault \in {"open", "read"} THEN Ret(dir, FALSE, "read")
         ELSE IF id \notin DOMAIN dir THEN Ret(dir, ~otherVolumesPresent, "missing")
         ELSE LET u == Unmarshal(dir[id]) IN
              IF u.err THEN Ret(dir, FALSE, "invalid")
              ELSE LET activeMountInfo == Decr(u.info) IN
                   IF activeMountInfo.UsageCount = 0
                   THEN LET r == TryRemove(dir, id, fault)
                        IN  IF r.err THEN Ret(r.dir, FALSE, "delete")
                            ELSE Ret(r.dir, ~otherVolumesPresent, "nil")
                   ELSE LET w == TryWriteFile(dir, id, Marshal(activeMountInfo), fault)
                        IN  IF w.err THEN Ret(w.dir, FALSE, "write")
                            ELSE Ret(w.dir, FALSE, "nil")

(***************************************************************************)
(* part_001: os.Open + io.ReadAll + Close, each error fatal; a parse error *)
(* is fatal; an empty directory at deactivation returns (true, error).     *)
(* This is the revision DockerOnTop.Mount / Unmount are written against.   *)
(***************************************************************************)
\* the record as part_001 loads it once os.Open succeeded
LoadChecked(dir, id, fault) ==
    IF fault = "read" THEN [err |-> "read", info |-> [UsageCount |-> 0]]
    ELSE IF fault = "close" THEN [err |-> "close", info |-> [UsageCount |-> 0]]
    ELSE LET u == Unmarshal(dir[id])
         IN  [err |-> IF u.err THEN "invalid" ELSE "nil", info |-> u.info]

\* activateVolume of part_001 with a slip: doMountFs is true on both branches
\* of the listing
activateVolume1_AlwaysMount(dir, id, rd, fault) ==
    IF rd.err \notin {"nil", "EOF"} THEN Ret(dir, FALSE, "list")
    ELSE LET doMountFs == TRUE IN
         IF fault = "open" THEN Ret(dir, FALSE, "open")
         ELSE LET l == IF id \in DOMAIN dir THEN LoadChecked(dir, id, fault)
                       ELSE [err |-> "nil", info |-> [UsageCount |-> 0]]
              IN  IF l.err # "nil" THEN Ret(dir, FALSE, l.err)
                  ELSE LET w == TryWriteFile(dir, id, Marshal(Incr(l.info)), fault)
                       IN  IF w.err THEN Ret(w.dir, FALSE, "write")
                           ELSE Ret(w.dir, doMountFs, "nil")

\* activateVolume of part_001 with a slip: a record that does not parse is
\* rewritten with a count of zero before the error is returned
activateVolume1_ResetInvalid(dir, id, rd, fault) ==
    IF rd.err \notin {"nil", "EOF"} THEN Ret(dir, FALSE, "list")
    ELSE LET doMountFs == (rd.err = "EOF") IN
         IF fault = "open" THEN Ret(dir, FALSE, "open")
         ELSE LET l == IF id \in DOMAIN dir THEN LoadChecked(dir, id, fault)
                       ELSE [err |-> "nil", info |-> [UsageCount |-> 0]]
              IN  IF l.err = "invalid"
                  THEN Ret(WriteFile(dir, id, Marshal(l.info)), FALSE, l.err)
                  ELSE IF l.err # "nil" THEN Ret(dir, FALSE, l.err)
                  ELSE LET w == TryWriteFile(dir, id, Marshal(Incr(l.info)), fault)
                       IN  IF w.err THEN Ret(w.dir, FALSE, "write")
                           ELSE Ret(w.dir, doMountFs, "nil")

activateVolume1(dir, id, rd, fault) ==
    IF rd.err \notin {"nil", "EOF"} THEN Ret(dir, FALSE, "list")
    ELSE LET doMountFs == (rd.err = "EOF") IN
         IF fault = "open" THEN Ret(dir, FALSE, "open")
         ELSE LET l == IF id \in DOMAIN dir THEN LoadChecked(dir, id, fault)
                       ELSE [err |-> "nil", info |-> [UsageCount |-> 0]]
              IN  IF l.err # "nil" THEN Ret(dir, FALSE, l.err)
                  ELSE LET w == TryWriteFile(dir, id, Marshal(Incr(l.info)), fault)
                       IN  IF w.err THEN Ret(w.dir, FALSE, "write")
                           ELSE Ret(w.dir, doMountFs, "nil")

\* deactivateVolume of part_001 with a slip: an empty directory returns false
\* with its error, as every other error does
deactivateVolume1_EmptyFalse(dir, id, rd, fault) ==
    IF rd.err = "EOF" THEN Ret(dir, FALSE, "empty")
    ELSE IF rd.err # "nil" THEN Ret(dir, FALSE, "list")
    ELSE LET otherVolumesPresent == Len(rd.entries) > 1 \/ rd.entries[1] # id IN
         IF fault = "open" THEN Ret(dir, FALSE, "open")
         ELSE IF id \notin DOMAIN dir THEN Ret(dir, ~otherVolumesPresent, "missing")
         ELSE LET l == LoadChecked(dir, id, fault) IN
              IF l.err # "nil" THEN Ret(dir, FALSE, l.err)
              ELSE LET activeMountInfo == Decr(l.info) IN
                   IF activeMountInfo.UsageCount = 0
                   THEN LET r == TryRemove(dir, id, fault)
                        IN  IF r.err THEN Ret(r.dir, FALSE, "delete")
                            ELSE Ret(r.dir, ~otherVolumesPresent, "nil")
                   ELSE LET w == TryWriteFile(dir, id, Marshal(activeMountInfo), fault)
                        IN  IF w.err THEN Ret(w.dir, FALSE, "write")
                            ELSE Ret(w.dir, FALSE, "nil")

\* deactivateVolume of part_001 with a slip: a missing record returns
\* otherVolumesPresent instead of its negation
deactivateVolume1_MissingTrue(dir, id, rd, fault) ==
    IF rd.err = "EOF" THEN Ret(dir, TRUE, "empty")
    ELSE IF rd.err # "nil" THEN Ret(dir, FALSE, "list")
    ELSE LET otherVolumesPresent == Len(rd.entries) > 1 \/ rd.entries[1] # id IN
         IF fault = "open" THEN Ret(dir, FALSE, "open")
         ELSE IF id \notin DOMAIN dir THEN Ret(dir, otherVolumesPresent, "missing")
         ELSE LET l == LoadChecked(dir, id, fault) IN
              IF l.err # "nil" THEN Ret(dir, FALSE, l.err)
              ELSE LET activeMountInfo == Decr(l.info) IN
                   IF activeMountInfo.UsageCount = 0
                   THEN LET r == TryRemove(dir, id, fault)
                        IN  IF r.err THEN Ret(r.dir, FALSE, "delete")
                            ELSE Ret(r.dir, ~otherVolumesPresent, "nil")
                   ELSE LET w == TryWriteFile(dir, id, Marshal(activeMountInfo), fault)
                        IN  IF w.err THEN Ret(w.dir, FALSE, "write")
                            ELSE Ret(w.dir, FALSE, "nil")

deactivateVolume1(dir, id, rd, fault) ==
    IF rd.err = "EOF" THEN Ret(dir, TRUE, "empty")
    ELSE IF rd.err # "nil" THEN Ret(dir, FALSE, "list")
    ELSE LET otherVolumesPresent == Len(rd.entries) > 1 \/ rd.entries[1] # id IN
         IF fault = "open" THEN Ret(dir, FALSE, "open")
         ELSE IF id \notin DOMAIN dir THEN Ret(dir, ~otherVolumesPresent, "missing")
         ELSE LET l == LoadChecked(dir, id, fault) IN
              IF l.err # "nil" THEN Ret(dir, FALSE, l.err)
              ELSE LET activeMountInfo == Decr(l.info) IN
                   IF activeMountInfo.UsageCount = 0
                   THEN LET r == TryRemove(dir, id, fault)
                        IN  IF r.err THEN Ret(r.dir, FALSE, "delete")
                            ELSE Ret(r.dir, ~otherVolumesPresent, "nil")
                   ELSE LET w == TryWriteFile(dir, id, Marshal(activeMountInfo), fault)
                        IN  IF w.err THEN Ret(w.dir, FALSE, "write")
                            ELSE Ret(w.dir, FALSE, "nil")

\* the registry code of a build
activateVolume(b, dir, id, rd, fault) ==
    IF b = "activemount" THEN activateVolumeA(dir, id, rd, fault)
    ELSE IF b = "part_000" THEN activateVolume0(dir, id, rd, fault)
    ELSE activateVolume1(dir, id, rd, fault)

deactivateVolume(b, dir, id, rd, fault) ==
    IF b = "activemount" THEN DeactivateVolumeA(dir, id, rd, fault)
    ELSE IF b = "part_000" THEN deactivateVolume0(dir, id, rd, fault)
    ELSE deactivateVolume1(dir, id, rd, fault)

(***************************************************************************)
(* State.                                                                  *)
(***************************************************************************)
VARIABLES
    build,         \* the revision of the registry code that is running
    files,         \* files[v]: the registry directory activemounts/ of volume v
    lock,          \* lock[v]: the worker holding the flock on activemounts/ of v
    mounted,       \* mounted[v]: overlays stacked on the mountpoint of v (kernel)
    pc,            \* pc[w]: where worker w is in Mount / Unmount
    req,           \* req[w]: the request worker w is serving
    held,          \* held[v][id]: Mounts of id that succeeded and no Unmount was yet asked for
    acts,          \* acts[v][id]: activateVolume calls that returned no error
    deacts,        \* deacts[v][id]: deactivateVolume calls that returned no error
    nMountTrue,    \* nMountTrue[v]: activateVolume calls that returned doMountFs = true
    nUnmountTrue,  \* nUnmountTrue[v]: deactivateVolume calls that returned doUnmountFs = true
    lateAct,       \* lateAct[v]: an activation of v came after a deactivation of v
    last,          \* the step taken last
    nreq,          \* requests started
    ncalls,        \* registry calls made directly (SpecReg)
    nfaults,       \* failures injected
    boot           \* NewDockerOnTop: where its sweep is and what it did

vars == <<build, files, lock, mounted, pc, req, held, acts, deacts,
          nMountTrue, nUnmountTrue, lateAct, last, nreq, ncalls, nfaults, boot>>

NoStep == [op |-> "none", w |-> NoWorker, vol |-> "none", id |-> "none",
           doFs |-> FALSE, err |-> "nil", ret |-> "none"]

Step(op, w, r, doFs, err, ret) ==
    [op |-> op, w |-> w, vol |-> r.vol, id |-> r.id,
     doFs |-> doFs, err |-> err, ret |-> ret]

\* lockedFile.Close(): the flock is dropped
Close(lk, v) == [lk EXCEPT ![v] = NoWorker]

\* lockedFile.Open(): flock(LOCK_EX) returns once nobody holds the lock
CanLock(lk, v) == lk[v] = NoWorker

Locked(lk, v, w) == [lk EXCEPT ![v] = w]

\* a failure may be injected while the budget lasts
MayFail == nfaults < MaxFaults

Outcomes == IF MayFail THEN {TRUE, FALSE} ELSE {TRUE}

FaultsNow == IF MayFail THEN Faults ELSE {"none"}

Bump(f, v, id) == [f EXCEPT ![v][id] = @ + 1]

Zero == [v \in Volumes |-> [id \in Ids |-> 0]]

\* NewDockerOnTop has returned the driver that serves the requests
BootOff == [pc |-> "off", root |-> {}, entries |-> <<>>, i |-> 0,
            reset |-> {}, skipped |-> {}, err |-> "nil"]

InitCommon ==
    /\ boot = BootOff
    /\ files = [v \in Volumes |-> EmptyDir]
    /\ lock = [v \in Volumes |-> NoWorker]
    /\ mounted = [v \in Volumes |-> 0]
    /\ pc = [w \in Workers |-> "idle"]
    /\ req = [w \in Workers |-> NoReq]
    /\ held = Zero
    /\ acts = Zero
    /\ deacts = Zero
    /\ nMountTrue = [v \in Volumes |-> 0]
    /\ nUnmountTrue = [v \in Volumes |-> 0]
    /\ lateAct = [v \in Volumes |-> FALSE]
    /\ last = NoStep
    /\ nreq = 0
    /\ ncalls = 0
    /\ nfaults = 0

\* the bookkeeping of one activateVolume call with result r
NoteActivate(v, id, r) ==
    /\ files' = [files EXCEPT ![v] = r.dir]
    /\ acts' = IF r.err = "nil" THEN Bump(acts, v, id) ELSE acts
    /\ nMountTrue' = IF r.doFs THEN [nMountTrue EXCEPT ![v] = @ + 1] ELSE nMountTrue
    /\ lateAct' = [lateAct EXCEPT ![v] = @ \/ (\E i \in Ids : deacts[v][i] > 0)]
    /\ UNCHANGED deacts

\* the bookkeeping of one deactivateVolume call with result r
NoteDeactivate(v, id, r) ==
    /\ files' = [files EXCEPT ![v] = r.dir]
    /\ deacts' = IF r.err = "nil" THEN Bump(deacts, v, id) ELSE deacts
    /\ nUnmountTrue' = IF r.doFs THEN [nUnmountTrue EXCEPT ![v] = @ + 1] ELSE nUnmountTrue
    /\ UNCHANGED <<acts, lateAct>>

(***************************************************************************)
(* DockerOnTop.Mount                                                       *)
(***************************************************************************)
\* the handler returns: the deferred activemountsdir.Close() runs
Return(w) ==
    /\ pc' = [pc EXCEPT ![w] = "idle"]
    /\ req' = [req EXCEPT ![w] = NoReq]
    /\ lock' = Close(lock, req[w].vol)

\* a Mount request arrives; getVolumeInfo
MountBegin(w) ==
    \E v \in Volumes, id \in Ids, ok \in Outcomes :
        /\ pc[w] = "idle"
        /\ nreq < MaxRequests
        /\ nreq' = nreq + 1
        /\ nfaults' = IF ok THEN nfaults ELSE nfaults + 1
        /\ LET r == [op |-> "Mount", vol |-> v, id |-> id] IN
           IF ok
           THEN /\ pc' = [pc EXCEPT ![w] = "m_open"]
                /\ req' = [req EXCEPT ![w] = r]
                /\ last' = Step("getinfo", w, r, FALSE, "nil", "none")
           ELSE /\ UNCHANGED <<pc, req>>
                /\ last' = Step("getinfo", w, r, FALSE, "info", "err")
        /\ UNCHANGED <<boot, build, files, lock, mounted, held, acts, deacts,
                       nMountTrue, nUnmountTrue, lateAct, ncalls>>

\* MountOpen with a slip: one lock for the whole driver, a Mount waits while
\* the lock of any volume is held
MountOpen_GlobalLock(w) ==
    /\ pc[w] = "m_open"
    /\ \E ok \in Outcomes :
        /\ nfaults' = IF ok THEN nfaults ELSE nfaults + 1
        /\ IF ok
           THEN /\ \A u \in Volumes : CanLock(lock, u)
                /\ lock' = Locked(lock, req[w].vol, w)
                /\ pc' = [pc EXCEPT ![w] = "m_activate"]
                /\ req' = req
                /\ last' = Step("open", w, req[w], FALSE, "nil", "none")
           ELSE /\ pc' = [pc EXCEPT ![w] = "idle"]
                /\ req' = [req EXCEPT ![w] = NoReq]
                /\ lock' = lock
                /\ last' = Step("open", w, req[w], FALSE, "open", "err")
    /\ UNCHANGED <<boot, build, files, mounted, held, acts, deacts,
                   nMountTrue, nUnmountTrue, lateAct, nreq, ncalls>>

\* MountOpen with a slip: the directory is opened but the handler does not wait
\* for the flock
MountOpen_NoWait(w) ==
    /\ pc[w] = "m_open"
    /\ \E ok \in Outcomes :
        /\ nfaults' = IF ok THEN nfaults ELSE nfaults + 1
        /\ IF ok
           THEN /\ lock' = Locked(lock, req[w].vol, w)
                /\ pc' = [pc EXCEPT ![w] = "m_activate"]
                /\ req' = req
                /\ last' = Step("open", w, req[w], FALSE, "nil", "none")
           ELSE /\ pc' = [pc EXCEPT ![w] = "idle"]
                /\ req' = [req EXCEPT ![w] = NoReq]
                /\ lock' = lock
                /\ last' = Step("open", w, req[w], FALSE, "open", "err")
    /\ UNCHANGED <<boot, build, files, mounted, held, acts, deacts,
                   nMountTrue, nUnmountTrue, lateAct, nreq, ncalls>>

\* activemountsdir.Open(...) and the deferred Close
MountOpen(w) ==
    /\ pc[w] = "m_open"
    /\ \E ok \in Outcomes :
        /\ nfaults' = IF ok THEN nfaults ELSE nfaults + 1
        /\ IF ok
           THEN /\ CanLock(lock, req[w].vol)
                /\ lock' = Locked(lock, req[w].vol, w)
                /\ pc' = [pc EXCEPT ![w] = "m_activate"]
                /\ req' = req
                /\ last' = Step("open", w, req[w], FALSE, "nil", "none")
           ELSE /\ pc' = [pc EXCEPT ![w] = "idle"]
                /\ req' = [req EXCEPT ![w] = NoReq]
                /\ lock' = lock
                /\ last' = Step("open", w, req[w], FALSE, "open", "err")
    /\ UNCHANGED <<boot, build, files, mounted, held, acts, deacts,
                   nMountTrue, nUnmountTrue, lateAct, nreq, ncalls>>

\* MountActivate with a slip: the lock is released once the registry is
\* updated, before the tree is prepared and the overlay mounted
MountActivate_EarlyRelease(w) ==
    /\ pc[w] = "m_activate"
    /\ LET v == req[w].vol
           id == req[w].id
       IN \E fault \in FaultsNow : \E rd \in ReadDir(files[v], 1, fault) :
           LET r == activateVolume(build, files[v], id, rd, fault) IN
           /\ NoteActivate(v, id, r)
           /\ nfaults' = IF fault = "none" THEN nfaults ELSE nfaults + 1
           /\ IF r.err # "nil"
              THEN /\ Return(w)
                   /\ held' = held
                   /\ last' = Step("activate", w, req[w], r.doFs, r.err, "err")
              ELSE IF r.doFs
              THEN /\ pc' = [pc EXCEPT ![w] = "m_premount"]
                   /\ lock' = Close(lock, v)
                   /\ UNCHANGED <<req, held>>
                   /\ last' = Step("activate", w, req[w], TRUE, "nil", "none")
              ELSE /\ Return(w)
                   /\ held' = Bump(held, v, id)
                   /\ last' = Step("activate", w, req[w], FALSE, "nil", "ok")
    /\ UNCHANGED <<boot, build, mounted, nUnmountTrue, nreq, ncalls>>

\* doMountFs, err := d.activateVolume(request, activemountsdir) and the branch on it
MountActivate(w) ==
    /\ pc[w] = "m_activate"
    /\ LET v == req[w].vol
           id == req[w].id
       IN \E fault \in FaultsNow : \E rd \in ReadDir(files[v], 1, fault) :
           LET r == activateVolume(build, files[v], id, rd, fault) IN
           /\ NoteActivate(v, id, r)
           /\ nfaults' = IF fault = "none" THEN nfaults ELSE nfaults + 1
           /\ IF r.err # "nil"
              THEN /\ Return(w)
                   /\ held' = held
                   /\ last' = Step("activate", w, req[w], r.doFs, r.err, "err")
              ELSE IF r.doFs
              THEN /\ pc' = [pc EXCEPT ![w] = "m_premount"]
                   /\ UNCHANGED <<req, lock, held>>
                   /\ last' = Step("activate", w, req[w], TRUE, "nil", "none")
              ELSE /\ Return(w)
                   /\ held' = Bump(held, v, id)
                   /\ last' = Step("activate", w, req[w], FALSE, "nil", "ok")
    /\ UNCHANGED <<boot, build, mounted, nUnmountTrue, nreq, ncalls>>

\* MountPreMount with a slip: the error of volumeTreePreMount is not looked at
MountPreMount_GoesOn(w) ==
    /\ pc[w] = "m_premount"
    /\ \E ok \in Outcomes :
        /\ nfaults' = IF ok THEN nfaults ELSE nfaults + 1
        /\ pc' = [pc EXCEPT ![w] = "m_mount"]
        /\ UNCHANGED <<req, lock>>
        /\ last' = IF ok THEN Step("premount", w, req[w], TRUE, "nil", "none")
                   ELSE Step("premount", w, req[w], TRUE, "premount", "none")
    /\ UNCHANGED <<boot, build, files, mounted, held, acts, deacts,
                   nMountTrue, nUnmountTrue, lateAct, nreq, ncalls>>

\* MountPreMount with a slip: the error return leaves without the Close
MountPreMount_Leak(w) ==
    /\ pc[w] = "m_premount"
    /\ \E ok \in Outcomes :
        /\ nfaults' = IF ok THEN nfaults ELSE nfaults + 1
        /\ IF ok
           THEN /\ pc' = [pc EXCEPT ![w] = "m_mount"]
                /\ UNCHANGED <<req, lock>>
                /\ last' = Step("premount", w, req[w], TRUE, "nil", "none")
           ELSE /\ pc' = [pc EXCEPT ![w] = "idle"]
                /\ req' = [req EXCEPT ![w] = NoReq]
                /\ lock' = lock
                /\ last' = Step("premount", w, req[w], TRUE, "premount", "err")
    /\ UNCHANGED <<boot, build, files, mounted, held, acts, deacts,
                   nMountTrue, nUnmountTrue, lateAct, nreq, ncalls>>

\* err = d.volumeTreePreMount(request.Name, thisVol.Volatile)
MountPreMount(w) ==
    /\ pc[w] = "m_premount"
    /\ \E ok \in Outcomes :
        /\ nfaults' = IF ok THEN nfaults ELSE nfaults + 1
        /\ IF ok
           THEN /\ pc' = [pc EXCEPT ![w] = "m_mount"]
                /\ UNCHANGED <<req, lock>>
                /\ last' = Step("premount", w, req[w], TRUE, "nil", "none")
           ELSE /\ Return(w)
                /\ last' = Step("premount", w, req[w], TRUE, "premount", "err")
    /\ UNCHANGED <<boot, build, files, mounted, held, acts, deacts,
                   nMountTrue, nUnmountTrue, lateAct, nreq, ncalls>>

\* err = syscall.Mount(..., mountpoint, "overlay", 0, options); return &response, nil
MountSyscall(w) ==
    /\ pc[w] = "m_mount"
    /\ \E ok \in Outcomes :
        /\ nfaults' = IF ok THEN nfaults ELSE nfaults + 1
        /\ Return(w)
        /\ IF ok
           THEN /\ mounted' = [mounted EXCEPT ![req[w].vol] = @ + 1]
                /\ held' = Bump(held, req[w].vol, req[w].id)
                /\ last' = Step("mount", w, req[w], TRUE, "nil", "ok")
           ELSE /\ UNCHANGED <<mounted, held>>
                /\ last' = Step("mount", w, req[w], TRUE, "mount", "err")
    /\ UNCHANGED <<boot, build, files, acts, deacts,
                   nMountTrue, nUnmountTrue, lateAct, nreq, ncalls>>

(***************************************************************************)
(* DockerOnTop.Unmount                                                     *)
(***************************************************************************)
\* an Unmount request arrives: the docker daemon asks for it only with an id
\* whose Mount succeeded
UnmountBegin(w) ==
    \E v \in Volumes, id \in Ids :
        /\ pc[w] = "idle"
        /\ nreq < MaxRequests
        /\ held[v][id] > 0
        /\ held' = [held EXCEPT ![v][id] = @ - 1]
        /\ nreq' = nreq + 1
        /\ pc' = [pc EXCEPT ![w] = "u_open"]
        /\ req' = [req EXCEPT ![w] = [op |-> "Unmount", vol |-> v, id |-> id]]
        /\ last' = Step("begin", w, [vol |-> v, id |-> id], FALSE, "nil", "none")
        /\ UNCHANGED <<boot, build, files, lock, mounted, acts, deacts,
                       nMountTrue, nUnmountTrue, lateAct, ncalls, nfaults>>

\* activemountsdir.Open(...) and the deferred Close
UnmountOpen(w) ==
    /\ pc[w] = "u_open"
    /\ \E ok \in Outcomes :
        /\ nfaults' = IF ok THEN nfaults ELSE nfaults + 1
        /\ IF ok
           THEN /\ CanLock(lock, req[w].vol)
                /\ lock' = Locked(lock, req[w].vol, w)
                /\ pc' = [pc EXCEPT ![w] = "u_deactivate"]
                /\ req' = req
                /\ last' = Step("open", w, req[w], FALSE, "nil", "none")
           ELSE /\ pc' = [pc EXCEPT ![w] = "idle"]
                /\ req' = [req EXCEPT ![w] = NoReq]
                /\ lock' = lock
                /\ last' = Step("open", w, req[w], FALSE, "open", "err")
    /\ UNCHANGED <<boot, build, files, mounted, held, acts, deacts,
                   nMountTrue, nUnmountTrue, lateAct, nreq, ncalls>>

\* UnmountDeactivate with a slip: doUnmountFs is not consulted, every
\* deactivation without error goes on to the physical unmount
UnmountDeactivate_AlwaysUnmount(w) ==
    /\ pc[w] = "u_deactivate"
    /\ LET v == req[w].vol
           id == req[w].id
       IN \E fault \in FaultsNow : \E rd \in ReadDir(files[v], 2, fault) :
           LET r == deactivateVolume(build, files[v], id, rd, fault) IN
           /\ NoteDeactivate(v, id, r)
           /\ nfaults' = IF fault = "none" THEN nfaults ELSE nfaults + 1
           /\ IF r.err # "nil"
              THEN /\ Return(w)
                   /\ last' = Step("deactivate", w, req[w], r.doFs, r.err, "err")
              ELSE /\ pc' = [pc EXCEPT ![w] = "u_unmount"]
                   /\ UNCHANGED <<req, lock>>
                   /\ last' = Step("deactivate", w, req[w], TRUE, "nil", "none")
    /\ UNCHANGED <<boot, build, mounted, held, nMountTrue, nreq, ncalls>>

\* doUnmountFs, err := d.deactivateVolume(request, activemountsdir) and the branch on it
UnmountDeactivate(w) ==
    /\ pc[w] = "u_deactivate"
    /\ LET v == req[w].vol
           id == req[w].id
       IN \E fault \in FaultsNow : \E rd \in ReadDir(files[v], 2, fault) :
           LET r == deactivateVolume(build, files[v], id, rd, fault) IN
           /\ NoteDeactivate(v, id, r)
           /\ nfaults' = IF fault = "none" THEN nfaults ELSE nfaults + 1
           /\ IF r.err # "nil"
              THEN /\ Return(w)
                   /\ last' = Step("deactivate", w, req[w], r.doFs, r.err, "err")
              ELSE IF r.doFs
              THEN /\ pc' = [pc EXCEPT ![w] = "u_unmount"]
                   /\ UNCHANGED <<req, lock>>
                   /\ last' = Step("deactivate", w, req[w], TRUE, "nil", "none")
              ELSE /\ Return(w)
                   /\ last' = Step("deactivate", w, req[w], FALSE, "nil", "ok")
    /\ UNCHANGED <<boot, build, mounted, held, nMountTrue, nreq, ncalls>>

\* UnmountSyscall with a slip: a failed syscall.Unmount is logged and the
\* handler goes on to volumeTreePostUnmount
UnmountSyscall_GoesOn(w) ==
    /\ pc[w] = "u_unmount"
    /\ \E ok \in (IF mounted[req[w].vol] = 0 THEN {FALSE} ELSE Outcomes) :
        /\ nfaults' = IF ok \/ mounted[req[w].vol] = 0 THEN nfaults ELSE nfaults + 1
        /\ mounted' = IF ok THEN [mounted EXCEPT ![req[w].vol] = @ - 1] ELSE mounted
        /\ pc' = [pc EXCEPT ![w] = "u_post"]
        /\ UNCHANGED <<req, lock>>
        /\ last' = IF ok THEN Step("unmount", w, req[w], TRUE, "nil", "none")
                   ELSE Step("unmount", w, req[w], TRUE, "unmount", "none")
    /\ UNCHANGED <<boot, build, files, held, acts, deacts,
                   nMountTrue, nUnmountTrue, lateAct, nreq, ncalls>>

\* err = syscall.Unmount(d.mountpointdir(request.Name), 0): the kernel refuses
\* (EINVAL) when nothing is mounted there
UnmountSyscall(w) ==
    /\ pc[w] = "u_unmount"
    /\ \E ok \in (IF mounted[req[w].vol] = 0 THEN {FALSE} ELSE Outcomes) :
        /\ nfaults' = IF ok \/ mounted[req[w].vol] = 0 THEN nfaults ELSE nfaults + 1
        /\ IF ok
           THEN /\ mounted' = [mounted EXCEPT ![req[w].vol] = @ - 1]
                /\ pc' = [pc EXCEPT ![w] = "u_post"]
                /\ UNCHANGED <<req, lock>>
                /\ last' = Step("unmount", w, req[w], TRUE, "nil", "none")
           ELSE /\ Return(w)
                /\ mounted' = mounted
                /\ last' = Step("unmount", w, req[w], TRUE, "unmount", "err")
    /\ UNCHANGED <<boot, build, files, held, acts, deacts,
                   nMountTrue, nUnmountTrue, lateAct, nreq, ncalls>>

\* UnmountPostUnmount with a slip: the handler returns without the Close
UnmountPostUnmount_NoClose(w) ==
    /\ pc[w] = "u_post"
    /\ \E ok \in Outcomes :
        /\ nfaults' = IF ok THEN nfaults ELSE nfaults + 1
        /\ pc' = [pc EXCEPT ![w] = "idle"]
        /\ req' = [req EXCEPT ![w] = NoReq]
        /\ lock' = lock
        /\ last' = IF ok THEN Step("postunmount", w, req[w], TRUE, "nil", "ok")
                   ELSE Step("postunmount", w, req[w], TRUE, "postunmount", "err")
    /\ UNCHANGED <<boot, build, files, mounted, held, acts, deacts,
                   nMountTrue, nUnmountTrue, lateAct, nreq, ncalls>>

\* err = d.volumeTreePostUnmount(request.Name); return err
UnmountPostUnmount(w) ==
    /\ pc[w] = "u_post"
    /\ \E ok \in Outcomes :
        /\ nfaults' = IF ok THEN nfaults ELSE nfaults + 1
        /\ Return(w)
        /\ last' = IF ok THEN Step("postunmount", w, req[w], TRUE, "nil", "ok")
                   ELSE Step("postunmount", w, req[w], TRUE, "postunmount", "err")
    /\ UNCHANGED <<boot, build, files, mounted, held, acts, deacts,
                   nMountTrue, nUnmountTrue, lateAct, nreq, ncalls>>

Init == InitCommon /\ build = "part_001"

Next ==
    \E w \in Workers :
        \/ MountBegin(w)
        \/ MountOpen(w)
        \/ MountActivate(w)
        \/ MountPreMount(w)
        \/ MountSyscall(w)
        \/ UnmountBegin(w)
        \/ UnmountOpen(w)
        \/ UnmountDeactivate(w)
        \/ UnmountSyscall(w)
        \/ UnmountPostUnmount(w)

Spec == Init /\ [][Next]_vars

(***************************************************************************)
(* The registry alone: activateVolume / deactivateVolume called one after  *)
(* the other on the registry directory of one volume, in any of the three  *)
(* revisions.                                                              *)
(***************************************************************************)
RegVol == "v1"

RegReq(id) == [vol |-> RegVol, id |-> id]

ActivateCall(id) ==
    /\ ncalls < MaxCalls
    /\ ncalls' = ncalls + 1
    /\ \E fault \in FaultsNow : \E rd \in ReadDir(files[RegVol], 1, fault) :
           LET r == activateVolume(build, files[RegVol], id, rd, fault) IN
           /\ NoteActivate(RegVol, id, r)
           /\ nfaults' = IF fault = "none" THEN nfaults ELSE nfaults + 1
           /\ last' = Step("activate", NoWorker, RegReq(id), r.doFs, r.err,
                           IF r.err = "nil" THEN "ok" ELSE "err")
    /\ UNCHANGED <<boot, build, lock, mounted, pc, req, held, nUnmountTrue, nreq>>

\* a deactivation is asked for only by an id that has an activation to give back
DeactivateCall(id) ==
    /\ ncalls < MaxCalls
    /\ acts[RegVol][id] > deacts[RegVol][id]
    /\ ncalls' = ncalls + 1
    /\ \E fault \in FaultsNow : \E rd \in ReadDir(files[RegVol], 2, fault) :
           LET r == deactivateVolume(build, files[RegVol], id, rd, fault) IN
           /\ NoteDeactivate(RegVol, id, r)
           /\ nfaults' = IF fault = "none" THEN nfaults ELSE nfaults + 1
           /\ last' = Step("deactivate", NoWorker, RegReq(id), r.doFs, r.err,
                           IF r.err = "nil" THEN "ok" ELSE "err")
    /\ UNCHANGED <<boot, build, lock, mounted, pc, req, held, nMountTrue, nreq>>

InitReg == InitCommon /\ build \in Builds

NextReg == \E id \in Ids : ActivateCall(id) \/ DeactivateCall(id)

SpecReg == InitReg /\ [][NextReg]_vars

(***************************************************************************)
(* Definitions used to state the properties.                               *)
(***************************************************************************)
Dir(v) == DOMAIN files[v]

\* the count a record file holds, as json.Unmarshal reads it
StoredCount(v, id) == Unmarshal(files[v][id]).info.UsageCount

\* the states of a handler between activemountsdir.Open and the deferred Close
Critical == {"m_activate", "m_premount", "m_mount",
             "u_deactivate", "u_unmount", "u_post"}

Idle == \A w \in Workers : pc[w] = "idle"

\* every id of v went through exactly one activate / deactivate pair, without failures
PairsDone(v) ==
    /\ nfaults = 0
    /\ Idle
    /\ \A id \in Ids : acts[v][id] = 1 /\ deacts[v][id] = 1

RECURSIVE SumOver(_, _)
SumOver(f, S) ==
    IF S = {} THEN 0
    ELSE LET x == CHOOSE y \in S : TRUE IN f[x] + SumOver(f, S \ {x})

\* every registry call made so far returned a nil error
NoCallFailed ==
    ncalls = SumOver(acts[RegVol], Ids) + SumOver(deacts[RegVol], Ids)

C2_Conservation ==
    (NoCallFailed /\ Dir(RegVol) = {}) => nMountTrue[RegVol] = nUnmountTrue[RegVol]

C2_Witness ==
    /\ nfaults = 0
    /\ Dir(RegVol) = {}
    /\ nMountTrue[RegVol] = 2
    /\ nUnmountTrue[RegVol] = 2
    /\ \A id \in Ids : acts[RegVol][id] >= 1

(***************************************************************************)
(* C3. With no failure injected and Unmount asked only for ids whose Mount *)
(* succeeded: whenever nobody holds the lock of a volume, its overlay is   *)
(* mounted (once) iff its registry directory holds a record; the overlay   *)
(* is unmounted only by the Unmount whose deactivation emptied the         *)
(* directory, and that Unmount goes on to the physical unmount.            *)
(***************************************************************************)
C3_MountedIffRecords ==
    \A v \in Volumes :
        nfaults = 0 =>
            /\ mounted[v] <= 1
            /\ (lock[v] = NoWorker => (mounted[v] = 1 <=> Dir(v) # {}))

C3_UnmountedByLast ==
    \A v \in Volumes :
        nfaults' = 0 =>
            /\ (mounted'[v] < mounted[v] =>
                    \E w \in Workers :
                        /\ pc[w] = "u_unmount"
                        /\ req[w] = [op |-> "Unmount", vol |-> v, id |-> last'.id]
                        /\ lock[v] = w
                        /\ Dir(v) = {})
            /\ ((Dir(v) # {} /\ DOMAIN files'[v] = {}) =>
                    \E w \in Workers :
                        /\ pc[w] = "u_deactivate"
                        /\ req[w].vol = v
                        /\ pc'[w] = "u_unmount")

C3_Theorem == [][C3_UnmountedByLast]_vars /\ []C3_MountedIffRecords

C3_Witness ==
    /\ nfaults = 0
    /\ last.op = "postunmount"
    /\ last.ret = "ok"
    /\ last.vol = RegVol
    /\ \A id \in Ids : acts[RegVol][id] = 1 /\ deacts[RegVol][id] = 1
    /\ nUnmountTrue[RegVol] = 1
    /\ mounted[RegVol] = 0
    /\ Dir(RegVol) = {}
    /\ lock[RegVol] = NoWorker

(***************************************************************************)
(* C4. Per volume at most one worker is between Open and Close, and it is  *)
(* the lock holder; every change of the registry directory and of the      *)
(* kernel mount of a volume is a step of the worker holding its lock.      *)
(***************************************************************************)
InCritical(v) == {w \in Workers : pc[w] \in Critical /\ req[w].vol = v}

C4_OneHolder ==
    \A v \in Volumes :
        /\ Cardinality(InCritical(v)) <= 1
        /\ \A w \in InCritical(v) : lock[v] = w

C4_MutatedByHolder ==
    \A v \in Volumes :
        (files'[v] # files[v] \/ mounted'[v] # mounted[v]) =>
            \E w \in Workers :
                /\ lock[v] = w
                /\ InCritical(v) = {w}
                /\ pc'[w] # pc[w]
                /\ \A x \in Workers \ {w} : pc'[x] = pc[x]

C4_Theorem == [][C4_MutatedByHolder]_vars /\ []C4_OneHolder

C4_Witness ==
    \E w1, w2 \in Workers :
        /\ w1 # w2
        /\ pc[w1] = "m_mount"
        /\ pc[w2] \in {"m_open", "u_open"}
        /\ req[w2].vol = req[w1].vol
        /\ lock[req[w1].vol] = w1

(***************************************************************************)
(* C5. When a Mount returns success with doMountFs = false, no other Mount *)
(* of that volume is between its decision to mount and the completion of   *)
(* its physical mount; without failures the overlay is then mounted.       *)
(***************************************************************************)
C5_NoEarlyAlreadyMounted ==
    (last.op = "activate" /\ last.ret = "ok" /\ ~last.doFs /\ last.w # NoWorker) =>
        /\ \A w \in Workers :
              ~(pc[w] \in {"m_premount", "m_mount"} /\ req[w].vol = last.vol)
        /\ (nfaults = 0 => mounted[last.vol] = 1)

C5_Witness ==
    /\ last.op = "activate"
    /\ last.ret = "ok"
    /\ ~last.doFs
    /\ last.w # NoWorker
    /\ nfaults = 0
    /\ mounted[last.vol] = 1
    /\ Cardinality(Dir(last.vol)) = 2

(***************************************************************************)
(* C6. As claimed: a Mount that fails in tree preparation or in the mount  *)
(* syscall does not leave its record behind in an otherwise empty registry *)
(* while the overlay is unmounted.                                         *)
(***************************************************************************)
C6_NoStaleRecord ==
    (last.ret = "err" /\ last.op \in {"premount", "mount"}) =>
        ~(Dir(last.vol) = {last.id} /\ mounted[last.vol] = 0)

(***************************************************************************)
(* C7. Every exit path of Mount and Unmount releases the lock: a worker    *)
(* that is not inside a handler holds no lock, a lock is held only by a    *)
(* worker between Open and Close on that volume, and once every request    *)
(* has returned every lock is free.                                        *)
(***************************************************************************)
C7_LockReleased ==
    /\ \A v \in Volumes :
          lock[v] # NoWorker => (pc[lock[v]] \in Critical /\ req[lock[v]].vol = v)
    /\ (Idle => \A v \in Volumes : lock[v] = NoWorker)

C7_Witness ==
    /\ last.ret = "err"
    /\ last.op = "mount"
    /\ Idle
    /\ \A v \in Volumes : lock[v] = NoWorker

(***************************************************************************)
(* C8. The same id activated twice and deactivated twice, nothing else     *)
(* called and no failure: true, then false with stored count 2; then false *)
(* with stored count 1, then true with the record deleted.                 *)
(***************************************************************************)
\* only id was ever used, with a activations and d deactivations, all successful
Only(id, a, d) ==
    /\ nfaults = 0
    /\ ncalls = a + d
    /\ acts[RegVol][id] = a
    /\ deacts[RegVol][id] = d

C8_TwiceScenario ==
    \A id \in Ids :
        /\ Only(id, 1, 0) => (last.doFs /\ StoredCount(RegVol, id) = 1)
        /\ Only(id, 2, 0) => (~last.doFs /\ nMountTrue[RegVol] = 1
                              /\ StoredCount(RegVol, id) = 2)
        /\ (Only(id, 2, 1) /\ last.op = "deactivate") =>
               (~last.doFs /\ nUnmountTrue[RegVol] = 0 /\ StoredCount(RegVol, id) = 1)
        /\ (Only(id, 2, 2) /\ nMountTrue[RegVol] = 1) =>
               (last.doFs /\ nUnmountTrue[RegVol] = 1 /\ id \notin Dir(RegVol))

C8_Witness ==
    /\ Only("A", 2, 2)
    /\ nMountTrue[RegVol] = 1
    /\ last.op = "deactivate"
    /\ last.doFs
    /\ Dir(RegVol) = {}

(***************************************************************************)
(* C9. A deactivation of an id whose stored count is greater than 1 never  *)
(* returns doUnmountFs = true and keeps the record file, whatever else is  *)
(* in the directory; when no I/O step of the call fails it returns no      *)
(* error and stores the count less one.                                    *)
(***************************************************************************)
DeactivateStepOf(id) ==
    /\ ncalls' = ncalls + 1
    /\ last'.op = "deactivate"
    /\ last'.id = id

ActivateStepOf(id) ==
    /\ ncalls' = ncalls + 1
    /\ last'.op = "activate"
    /\ last'.id = id

C9_Step ==
    \A id \in Ids :
        (/\ DeactivateStepOf(id)
         /\ id \in Dir(RegVol)
         /\ StoredCount(RegVol, id) > 1) =>
            /\ ~last'.doFs
            /\ id \in DOMAIN files'[RegVol]
            /\ (nfaults' = nfaults =>
                  /\ last'.err = "nil"
                  /\ files'[RegVol][id] = Marshal([UsageCount |-> StoredCount(RegVol, id) - 1])
                  /\ Unmarshal(files'[RegVol][id]).info.UsageCount
                        = StoredCount(RegVol, id) - 1)

C9_Theorem == [][C9_Step]_vars

C9_Witness ==
    /\ last.op = "deactivate"
    /\ last.err = "nil"
    /\ ~last.doFs
    /\ nfaults = 0
    /\ Dir(RegVol) = {last.id}
    /\ StoredCount(RegVol, last.id) = 1
    /\ acts[RegVol][last.id] = 2
    /\ deacts[RegVol][last.id] = 1
    /\ ncalls = 3

(***************************************************************************)
(* C10. An activation that finds a record in the directory returns         *)
(* doMountFs = false, and one that returns no error returns doMountFs =    *)
(* true exactly when the directory had no entry; a deactivation that       *)
(* deletes its record returns doUnmountFs = true exactly when no record    *)
(* of another id is present.                                               *)
(***************************************************************************)
C10_Step ==
    \A id \in Ids :
        /\ ActivateStepOf(id) =>
              /\ (Dir(RegVol) # {} => ~last'.doFs)
              /\ (last'.err = "nil" => (last'.doFs <=> Dir(RegVol) = {}))
        /\ (DeactivateStepOf(id) /\ id \in Dir(RegVol) /\ id \notin DOMAIN files'[RegVol]) =>
              /\ last'.err = "nil"
              /\ (last'.doFs <=> Dir(RegVol) \ {id} = {})

C10_Theorem == [][C10_Step]_vars

\* A then B activated, A deactivated (false), B deactivated (true): directory empty
C10_Witness ==
    /\ nfaults = 0
    /\ ncalls = 4
    /\ \A id \in Ids : acts[RegVol][id] = 1 /\ deacts[RegVol][id] = 1
    /\ nMountTrue[RegVol] = 1
    /\ nUnmountTrue[RegVol] = 1
    /\ last = Step("deactivate", NoWorker, RegReq("B"), TRUE, "nil", "ok")
    /\ Dir(RegVol) = {}

(***************************************************************************)
(* The registry of one volume under calls in any order: a deactivation is  *)
(* asked for whether or not the id has an activation to give back.         *)
(***************************************************************************)
DeactivateAnyCall(id) ==
    /\ ncalls < MaxCalls
    /\ ncalls' = ncalls + 1
    /\ \E fault \in FaultsNow : \E rd \in ReadDir(files[RegVol], 2, fault) :
           LET r == deactivateVolume(build, files[RegVol], id, rd, fault) IN
           /\ NoteDeactivate(RegVol, id, r)
           /\ nfaults' = IF fault = "none" THEN nfaults ELSE nfaults + 1
           /\ last' = Step("deactivate", NoWorker, RegReq(id), r.doFs, r.err,
                           IF r.err = "nil" THEN "ok" ELSE "err")
    /\ UNCHANGED <<boot, build, lock, mounted, pc, req, held, nMountTrue, nreq>>

NextAny == \E id \in Ids : ActivateCall(id) \/ DeactivateAnyCall(id)

SpecAny == InitReg /\ [][NextAny]_vars

\* a record file that json.Unmarshal accepts
Parses(v, id) == ~Unmarshal(files[v][id]).err

(***************************************************************************)
(* C11. From an empty registry, under activate and deactivate calls in any *)
(* order and with no I/O failure, every record file present parses and     *)
(* holds a count >= 1; a deactivation that brings a count to zero deletes  *)
(* the record, and no call writes a record with a count below one.         *)
(***************************************************************************)
C11_CountsPositive ==
    nfaults = 0 =>
        \A id \in Dir(RegVol) : Parses(RegVol, id) /\ StoredCount(RegVol, id) >= 1

C11_ZeroDeleted ==
    \A id \in Ids :
        (/\ DeactivateStepOf(id)
         /\ nfaults' = 0
         /\ id \in Dir(RegVol)
         /\ StoredCount(RegVol, id) = 1) =>
            /\ id \notin DOMAIN files'[RegVol]
            /\ last'.err = "nil"

C11_Theorem == []C11_CountsPositive /\ [][C11_ZeroDeleted]_vars

\* a record of count 2 went down to 1 and then to zero, and is gone, while the
\* other id's record stays with its count
C11_Witness ==
    /\ nfaults = 0
    /\ acts[RegVol]["A"] = 2
    /\ deacts[RegVol]["A"] = 2
    /\ "A" \notin Dir(RegVol)
    /\ "B" \in Dir(RegVol)
    /\ StoredCount(RegVol, "B") = 1

(***************************************************************************)
(* C12. Once every activation of a volume has been given back by a         *)
(* deactivation of the same id, with no I/O failure, the registry          *)
(* directory is empty; and the record of each id whose activations are all *)
(* given back is deleted, whatever the other ids hold.  The same holds in  *)
(* part_000 and part_001 under I/O failures when no call returned an error.*)
(***************************************************************************)
C12_EmptyAfterLast ==
    (nfaults = 0 \/ (NoCallFailed /\ build # "activemount")) =>
        /\ \A id \in Ids :
               acts[RegVol][id] = deacts[RegVol][id] => id \notin Dir(RegVol)
        /\ (\A id \in Ids : acts[RegVol][id] = deacts[RegVol][id]) => Dir(RegVol) = {}

\* three activations of two ids, all given back: the last deactivation found
\* the registry with one record and left it empty
C12_Witness ==
    /\ nfaults = 0
    /\ acts[RegVol]["A"] = 2
    /\ deacts[RegVol]["A"] = 2
    /\ acts[RegVol]["B"] = 1
    /\ deacts[RegVol]["B"] = 1
    /\ last.op = "deactivate"
    /\ last.doFs
    /\ Dir(RegVol) = {}

(***************************************************************************)
(* C13. A deactivate that finds the registry directory with no entries     *)
(* returns mustUnmount = true and leaves the registry as it was; the       *)
(* anomaly comes back as an error in activemount.go and part_001, and as a *)
(* nil error (a logged warning) in part_000.                               *)
(***************************************************************************)
C13_Step ==
    \A id \in Ids :
        (/\ DeactivateStepOf(id)
         /\ Dir(RegVol) = {}
         /\ last'.err # "list") =>
            /\ last'.doFs
            /\ files' = files
            /\ last'.err = IF build = "part_000" THEN "nil" ELSE "empty"
            /\ nUnmountTrue'[RegVol] = nUnmountTrue[RegVol] + 1

C13_Theorem == [][C13_Step]_vars

\* the registry was filled and emptied, and a further deactivate has met the
\* empty directory
C13_Witness ==
    /\ build = "part_001"
    /\ acts[RegVol]["A"] = 1
    /\ deacts[RegVol]["A"] = 1
    /\ last = Step("deactivate", NoWorker, RegReq("A"), TRUE, "empty", "err")
    /\ Dir(RegVol) = {}
    /\ ncalls = 3

(***************************************************************************)
(* The handlers under requests in any order: the daemon may send an        *)
(* Unmount for an id that holds no mount of the volume.                    *)
(***************************************************************************)
UnmountBeginAny(w) ==
    \E v \in Volumes, id \in Ids :
        /\ pc[w] = "idle"
        /\ nreq < MaxRequests
        /\ held' = [held EXCEPT ![v][id] = IF @ > 0 THEN @ - 1 ELSE @]
        /\ nreq' = nreq + 1
        /\ pc' = [pc EXCEPT ![w] = "u_open"]
        /\ req' = [req EXCEPT ![w] = [op |-> "Unmount", vol |-> v, id |-> id]]
        /\ last' = Step("begin", w, [vol |-> v, id |-> id], FALSE, "nil", "none")
        /\ UNCHANGED <<boot, build, files, lock, mounted, acts, deacts,
                       nMountTrue, nUnmountTrue, lateAct, ncalls, nfaults>>

NextAnyUnmount ==
    \E w \in Workers :
        \/ MountBegin(w)
        \/ MountOpen(w)
        \/ MountActivate(w)
        \/ MountPreMount(w)
        \/ MountSyscall(w)
        \/ UnmountBeginAny(w)
        \/ UnmountOpen(w)
        \/ UnmountDeactivate(w)
        \/ UnmountSyscall(w)
        \/ UnmountPostUnmount(w)

SpecAnyUnmount == Init /\ [][NextAnyUnmount]_vars

(***************************************************************************)
(* C14. As claimed: an Unmount that finds the registry directory empty     *)
(* while the overlay is mounted goes on to the physical unmount; it never  *)
(* returns straight after deactivateVolume with the overlay still mounted. *)
(***************************************************************************)
C14_UnmountsOnEmpty ==
    ~(/\ last.op = "deactivate"
      /\ last.err = "empty"
      /\ last.doFs
      /\ last.ret = "err"
      /\ mounted[last.vol] > 0)

\* entries of the registry directory of v other than the record of id
OthersPresent(v, id) == Dir(v) \ {id} # {}

(***************************************************************************)
(* C15. A deactivate for an id whose record file is missing while the      *)
(* directory has entries returns an error, leaves the registry as it was,  *)
(* and returns mustUnmount = !othersPresent (false here, since the entries *)
(* found are records of other ids).                                        *)
(***************************************************************************)
C15_Step ==
    \A id \in Ids :
        (/\ DeactivateStepOf(id)
         /\ Dir(RegVol) # {}
         /\ id \notin Dir(RegVol)
         /\ nfaults' = nfaults) =>
            /\ last'.err = "missing"
            /\ last'.ret = "err"
            /\ files' = files
            /\ deacts' = deacts
            /\ last'.doFs = ~OthersPresent(RegVol, id)

C15_Theorem == [][C15_Step]_vars

\* A's record is absent, B's is there, and a deactivate of A has returned
C15_Witness ==
    /\ last = Step("deactivate", NoWorker, RegReq("A"), FALSE, "missing", "err")
    /\ Dir(RegVol) = {"B"}
    /\ StoredCount(RegVol, "B") = 2

(***************************************************************************)
(* C16. As claimed: an activate or deactivate that finds its record file   *)
(* present but not parsable returns an error, leaves the registry as it    *)
(* was and returns a decision of false.                                    *)
(***************************************************************************)
C16_Step ==
    \A id \in Ids :
        (/\ ActivateStepOf(id) \/ DeactivateStepOf(id)
         /\ id \in Dir(RegVol)
         /\ ~Parses(RegVol, id)
         /\ nfaults' = nfaults) =>
            /\ last'.err # "nil"
            /\ files' = files
            /\ ~last'.doFs

C16_ParseFailureFails == [][C16_Step]_vars

\* the errors of a registry call that could not list the directory or could
\* not open, read, close or parse the record file
LoadFailures == {"list", "open", "read", "close", "invalid"}

(***************************************************************************)
(* C17. When activateVolume or deactivateVolume fails on the listing or on *)
(* opening, reading or parsing the record, the registry of every volume is *)
(* as it was before the call, and the handler returns the error at once:   *)
(* it releases the lock and goes through no tree preparation, mount,       *)
(* unmount or teardown, so the mount state is unchanged.                   *)
(***************************************************************************)
C17_Step ==
    \A w \in Workers :
        (/\ pc[w] \in {"m_activate", "u_deactivate"}
         /\ pc'[w] # pc[w]
         /\ last'.err \in LoadFailures) =>
            /\ files' = files
            /\ mounted' = mounted
            /\ pc'[w] = "idle"
            /\ last'.ret = "err"
            /\ last'.w = w
            /\ lock'[req[w].vol] = NoWorker
            /\ <<acts', deacts', nMountTrue', nUnmountTrue'>>
                  = <<acts, deacts, nMountTrue, nUnmountTrue>>

C17_Theorem == [][C17_Step]_vars

\* a Mount has found the record that a failed write left truncated, and has
\* returned the parse error with the record still truncated
C17_Witness ==
    /\ last.op = "activate"
    /\ last.err = "invalid"
    /\ last.ret = "err"
    /\ pc[last.w] = "idle"
    /\ files[last.vol][last.id] = Truncated
    /\ mounted[last.vol] = 0

(***************************************************************************)
(* C18. When syscall.Unmount fails during Unmount, the handler returns     *)
(* that error at once: volumeTreePostUnmount is not run, the overlay stays *)
(* mounted as it was, and the registry stays as deactivateVolume left it,  *)
(* with the caller's record removed and nothing written back.              *)
(***************************************************************************)
C18_Step ==
    \A w \in Workers :
        (/\ pc[w] = "u_unmount"
         /\ pc'[w] # pc[w]
         /\ last'.err # "nil") =>
            /\ last' = Step("unmount", w, req[w], TRUE, "unmount", "err")
            /\ pc'[w] = "idle"
            /\ files' = files
            /\ req[w].id \notin DOMAIN files'[req[w].vol]
            /\ mounted' = mounted
            /\ lock'[req[w].vol] = NoWorker
            /\ <<acts', deacts'>> = <<acts, deacts>>

\* the teardown is entered only from a physical unmount that succeeded
C18_PostOnlyAfterUnmount ==
    \A w \in Workers :
        (pc'[w] = "u_post" /\ pc[w] # "u_post") =>
            /\ pc[w] = "u_unmount"
            /\ last'.op = "unmount"
            /\ last'.err = "nil"
            /\ mounted'[req[w].vol] = mounted[req[w].vol] - 1

C18_Theorem == [][C18_Step /\ C18_PostOnlyAfterUnmount]_vars

\* the overlay was mounted, the last record was removed, the physical unmount
\* failed: the overlay is still mounted over an empty registry
C18_Witness ==
    /\ last.op = "unmount"
    /\ last.err = "unmount"
    /\ last.ret = "err"
    /\ pc[last.w] = "idle"
    /\ mounted[last.vol] = 1
    /\ Dir(last.vol) = {}
    /\ deacts[last.vol][last.id] = 1

(***************************************************************************)
(* NewDockerOnTop: the sweep over the volumes found under the root         *)
(* directory when the driver starts.                                       *)
(***************************************************************************)
\* os.ReadDir returns the entries sorted by filename
VolumeOrder == <<"v1", "v2">>

InRoot(v) == v \in boot.root

SortedEntries == SelectSeq(VolumeOrder, InRoot)

\* registries that an earlier lifetime of the process may have left behind
StaleDirs ==
    {EmptyDir,
     WriteFile(EmptyDir, "A", Marshal([UsageCount |-> 1])),
     WriteFile(WriteFile(EmptyDir, "A", Marshal([UsageCount |-> 2])),
               "B", Marshal([UsageCount |-> 1]))}

\* DockerOnTop.volumeTreeOnBootReset: EBUSY while the kernel still has the
\* overlay of the volume mounted, and nothing is touched; otherwise the active
\* mounts of the volume are reset, unless the reset itself fails
volumeTreeOnBootReset(dir, isMounted, ok) ==
    IF isMounted THEN [err |-> "EBUSY", dir |-> dir]
    ELSE IF ok THEN [err |-> "nil", dir |-> EmptyDir]
    ELSE [err |-> "EIO", dir |-> dir]

\* the checks on dotRootDir, os.MkdirAll and os.ReadDir
BootStart ==
    /\ boot.pc = "start"
    /\ \E err \in {"nil", "norootdir"} \cup (IF MayFail THEN {"mkdir", "readdir"} ELSE {}) :
        /\ nfaults' = IF err \in {"mkdir", "readdir"} THEN nfaults + 1 ELSE nfaults
        /\ boot' = IF err = "nil"
                   THEN [boot EXCEPT !.pc = "loop", !.entries = SortedEntries, !.i = 1]
                   ELSE [boot EXCEPT !.pc = "failed", !.err = err]
        /\ last' = Step("readdir", NoWorker, NoReq, FALSE, err,
                        IF err = "nil" THEN "none" ELSE "err")
    /\ UNCHANGED <<build, files, lock, mounted, pc, req, held, acts, deacts,
                   nMountTrue, nUnmountTrue, lateAct, nreq, ncalls>>

\* BootReset with a slip: an error of the reset is logged and the sweep goes on
BootReset_GoesOn ==
    /\ boot.pc = "loop"
    /\ boot.i <= Len(boot.entries)
    /\ LET volumeName == boot.entries[boot.i] IN
       \E ok \in Outcomes :
           LET resetErr == volumeTreeOnBootReset(files[volumeName],
                                                 mounted[volumeName] > 0, ok)
           IN  /\ nfaults' = IF resetErr.err = "EIO" THEN nfaults + 1 ELSE nfaults
               /\ files' = [files EXCEPT ![volumeName] = resetErr.dir]
               /\ boot' = IF resetErr.err = "nil"
                          THEN [boot EXCEPT !.i = @ + 1, !.reset = @ \cup {volumeName}]
                          ELSE [boot EXCEPT !.i = @ + 1, !.skipped = @ \cup {volumeName}]
               /\ last' = Step("bootreset", NoWorker, [vol |-> volumeName, id |-> "none"],
                               FALSE, resetErr.err, "none")
    /\ UNCHANGED <<build, lock, mounted, pc, req, held, acts, deacts,
                   nMountTrue, nUnmountTrue, lateAct, nreq, ncalls>>

\* BootReset with a slip: EBUSY is not told apart from the other errors
BootReset_BusyFatal ==
    /\ boot.pc = "loop"
    /\ boot.i <= Len(boot.entries)
    /\ LET volumeName == boot.entries[boot.i] IN
       \E ok \in Outcomes :
           LET resetErr == volumeTreeOnBootReset(files[volumeName],
                                                 mounted[volumeName] > 0, ok)
           IN  /\ nfaults' = IF resetErr.err = "EIO" THEN nfaults + 1 ELSE nfaults
               /\ files' = [files EXCEPT ![volumeName] = resetErr.dir]
               /\ boot' = IF resetErr.err = "nil"
                          THEN [boot EXCEPT !.i = @ + 1, !.reset = @ \cup {volumeName}]
                          ELSE [boot EXCEPT !.pc = "failed", !.err = resetErr.err]
               /\ last' = Step("bootreset", NoWorker, [vol |-> volumeName, id |-> "none"],
                               FALSE, resetErr.err,
                               IF resetErr.err = "nil" THEN "none" ELSE "err")
    /\ UNCHANGED <<build, lock, mounted, pc, req, held, acts, deacts,
                   nMountTrue, nUnmountTrue, lateAct, nreq, ncalls>>

\* one turn of the loop: resetErr := dot.volumeTreeOnBootReset(volumeName) and
\* the three branches on resetErr
BootReset ==
    /\ boot.pc = "loop"
    /\ boot.i <= Len(boot.entries)
    /\ LET volumeName == boot.entries[boot.i] IN
       \E ok \in Outcomes :
           LET resetErr == volumeTreeOnBootReset(files[volumeName],
                                                 mounted[volumeName] > 0, ok)
           IN  /\ nfaults' = IF resetErr.err = "EIO" THEN nfaults + 1 ELSE nfaults
               /\ files' = [files EXCEPT ![volumeName] = resetErr.dir]
               /\ boot' = IF resetErr.err = "nil"
                          THEN [boot EXCEPT !.i = @ + 1, !.reset = @ \cup {volumeName}]
                          ELSE IF resetErr.err = "EBUSY"
                          THEN [boot EXCEPT !.i = @ + 1, !.skipped = @ \cup {volumeName}]
                          ELSE [boot EXCEPT !.pc = "failed", !.err = resetErr.err]
               /\ last' = Step("bootreset", NoWorker, [vol |-> volumeName, id |-> "none"],
                               FALSE, resetErr.err,
                               IF resetErr.err \in {"nil", "EBUSY"} THEN "none" ELSE "err")
    /\ UNCHANGED <<build, lock, mounted, pc, req, held, acts, deacts,
                   nMountTrue, nUnmountTrue, lateAct, nreq, ncalls>>

\* return &dot, nil
BootReturn ==
    /\ boot.pc = "loop"
    /\ boot.i > Len(boot.entries)
    /\ boot' = [boot EXCEPT !.pc = "done"]
    /\ last' = Step("return", NoWorker, NoReq, FALSE, "nil", "ok")
    /\ UNCHANGED <<build, files, lock, mounted, pc, req, held, acts, deacts,
                   nMountTrue, nUnmountTrue, lateAct, nreq, ncalls, nfaults>>

\* the process starts over what the earlier lifetime left: any set of volumes
\* under the root, each with its overlay mounted or not and its registry
InitBoot ==
    /\ build = "part_001"
    /\ \E root \in SUBSET Volumes :
           boot = [BootOff EXCEPT !.pc = "start", !.root = root]
    /\ files \in {f \in [Volumes -> StaleDirs] :
                     \A v \in Volumes \ boot.root : f[v] = EmptyDir}
    /\ mounted \in {m \in [Volumes -> 0..1] :
                       \A v \in Volumes \ boot.root : m[v] = 0}
    /\ lock = [v \in Volumes |-> NoWorker]
    /\ pc = [w \in Workers |-> "idle"]
    /\ req = [w \in Workers |-> NoReq]
    /\ held = Zero
    /\ acts = Zero
    /\ deacts = Zero
    /\ nMountTrue = [v \in Volumes |-> 0]
    /\ nUnmountTrue = [v \in Volumes |-> 0]
    /\ lateAct = [v \in Volumes |-> FALSE]
    /\ last = NoStep
    /\ nreq = 0
    /\ ncalls = 0
    /\ nfaults = 0

NextBoot == BootStart \/ BootReset \/ BootReturn

SpecBoot == InitBoot /\ [][NextBoot]_vars

(***************************************************************************)
(* C19. NewDockerOnTop visits every volume found under the root, in order: *)
(* a volume whose reset reports busy (overlay still mounted) is skipped    *)
(* with nothing touched and no error, and the sweep goes on to the next    *)
(* volume; a volume that is not mounted has its tree reset; the driver is  *)
(* returned exactly when every volume was reset or skipped as busy, and a  *)
(* busy volume is never the cause of a failed start.                       *)
(***************************************************************************)
C19_Step ==
    (boot.pc = "loop" /\ boot.i <= Len(boot.entries) /\ boot' # boot) =>
        LET v == boot.entries[boot.i] IN
        /\ last'.vol = v
        /\ mounted[v] > 0 =>
              /\ boot'.pc = "loop"
              /\ boot'.i = boot.i + 1
              /\ boot'.skipped = boot.skipped \cup {v}
              /\ boot'.reset = boot.reset
              /\ files' = files
              /\ last'.err = "EBUSY"
        /\ (mounted[v] = 0 /\ nfaults' = nfaults) =>
              /\ boot'.pc = "loop"
              /\ boot'.i = boot.i + 1
              /\ boot'.reset = boot.reset \cup {v}
              /\ boot'.skipped = boot.skipped
              /\ files' = [files EXCEPT ![v] = EmptyDir]

C19_Returned ==
    /\ boot.pc = "done" =>
          /\ boot.skipped = {v \in boot.root : mounted[v] > 0}
          /\ boot.reset = {v \in boot.root : mounted[v] = 0}
          /\ \A v \in boot.reset : files[v] = EmptyDir
    /\ boot.pc = "failed" => boot.err \in {"norootdir", "mkdir", "readdir", "EIO"}
    /\ (boot.pc = "loop" /\ boot.i > Len(boot.entries)) =>
          boot.skipped \cup boot.reset = boot.root

C19_Theorem == [][C19_Step]_vars /\ []C19_Returned

\* v1 was found busy and skipped with its registry untouched, the sweep went
\* on to v2 and reset it, and the driver was returned
C19_Witness ==
    /\ boot.pc = "done"
    /\ boot.entries = <<"v1", "v2">>
    /\ boot.skipped = {"v1"}
    /\ boot.reset = {"v2"}
    /\ mounted["v1"] = 1
    /\ Dir("v1") = {"A", "B"}
    /\ Dir("v2") = {}
    /\ nfaults = 0

\* worker w comes out of activemountsdir.Open with the lock of its volume
Acquires(w) == (MountOpen(w) \/ UnmountOpen(w)) /\ lock'[req[w].vol] = w

\* worker w is in activemountsdir.Open
Opening(w) == pc[w] \in {"m_open", "u_open"}

(***************************************************************************)
(* C20. Requests on different volumes are independent: every step of a     *)
(* Mount or Unmount on volume V leaves the lock, the registry and the      *)
(* mount state of every other volume as they were; and a request that     *)
(* opens the registry of its volume can take the lock exactly when nobody  *)
(* holds the lock of that volume, whoever holds the locks of the others:   *)
(* a worker that keeps V's lock for ever stops only the requests for V.    *)
(***************************************************************************)
C20_Frame ==
    \A u \in Volumes :
        u # last'.vol =>
            /\ lock'[u] = lock[u]
            /\ files'[u] = files[u]
            /\ mounted'[u] = mounted[u]

C20_BlockedOnlyByOwnLock ==
    \A w \in Workers :
        Opening(w) => (ENABLED Acquires(w) <=> lock[req[w].vol] = NoWorker)

C20_Theorem == [][C20_Frame]_vars /\ []C20_BlockedOnlyByOwnLock

\* w1 sits in syscall.Mount with the lock of v1, a request for v1 would wait,
\* and w2 has carried a Mount and an Unmount on v2 through to the end
C20_Witness ==
    /\ pc["w1"] = "m_mount"
    /\ req["w1"].vol = "v1"
    /\ lock["v1"] = "w1"
    /\ last = Step("postunmount", "w2", [op |-> "Unmount", vol |-> "v2", id |-> "A"],
                   TRUE, "nil", "ok")
    /\ acts["v2"]["A"] = 1
    /\ deacts["v2"]["A"] = 1
    /\ mounted = [v \in Volumes |-> 0]
    /\ nfaults = 0

(***************************************************************************)
(* C21. As claimed: whenever activateVolume or deactivateVolume returns an *)
(* error, the boolean it returns with it is false.                         *)
(***************************************************************************)
C21_ErrorMeansFalse ==
    (last.op \in {"activate", "deactivate"} /\ last.err # "nil") => ~last.doFs

\* the activations of id that succeeded, less its deactivations that succeeded
Balance(v, id) == acts[v][id] - deacts[v][id]

CountIsBalance(v) ==
    \A id \in Ids :
        /\ id \in Dir(v) <=> Balance(v, id) # 0
        /\ id \in Dir(v) => Parses(v, id) /\ StoredCount(v, id) = Balance(v, id)

Moves(w, from) == pc[w] = from /\ pc'[w] # from

\* worker w comes to a place of the handler
Enters(w, to) == pc'[w] = to /\ pc[w] # to

(***************************************************************************)
(* C23. Mount prepares the tree only after activateVolume returned true    *)
(* without error, and issues the mount only after the preparation          *)
(* succeeded; a failed preparation returns with no mount; a Mount whose    *)
(* activateVolume returned false without error returns the mountpoint with *)
(* neither step.  Unmount issues the unmount only after deactivateVolume   *)
(* returned true without error, and runs the teardown only after the       *)
(* unmount succeeded.  The overlay is mounted and unmounted by no other    *)
(* step.                                                                   *)
(***************************************************************************)
C23_MountOrder ==
    \A w \in Workers :
        /\ Enters(w, "m_premount") =>
              /\ pc[w] = "m_activate"
              /\ last' = Step("activate", w, req[w], TRUE, "nil", "none")
        /\ Enters(w, "m_mount") =>
              /\ pc[w] = "m_premount"
              /\ last' = Step("premount", w, req[w], TRUE, "nil", "none")
        /\ (Moves(w, "m_premount") /\ last'.err # "nil") =>
              /\ pc'[w] = "idle"
              /\ last'.ret = "err"
              /\ mounted' = mounted
        /\ (Moves(w, "m_activate") /\ last'.err = "nil" /\ ~last'.doFs) =>
              /\ pc'[w] = "idle"
              /\ last'.ret = "ok"
              /\ mounted' = mounted

C23_UnmountOrder ==
    \A w \in Workers :
        /\ Enters(w, "u_unmount") =>
              /\ pc[w] = "u_deactivate"
              /\ last' = Step("deactivate", w, req[w], TRUE, "nil", "none")
        /\ Enters(w, "u_post") =>
              /\ pc[w] = "u_unmount"
              /\ last' = Step("unmount", w, req[w], TRUE, "nil", "none")
        /\ (Moves(w, "u_deactivate") /\ (last'.err # "nil" \/ ~last'.doFs)) =>
              /\ pc'[w] = "idle"
              /\ mounted' = mounted

C23_OnlyTheSyscalls ==
    \A v \in Volumes :
        /\ mounted'[v] > mounted[v] =>
              \E w \in Workers : Moves(w, "m_mount") /\ req[w].vol = v
        /\ mounted'[v] < mounted[v] =>
              \E w \in Workers : Moves(w, "u_unmount") /\ req[w].vol = v

C23_Theorem == [][C23_MountOrder /\ C23_UnmountOrder /\ C23_OnlyTheSyscalls]_vars

\* a second Mount found the registry non-empty and returned the mountpoint at
\* once, with the overlay mounted once by the first
C23_Witness ==
    /\ last.op = "activate"
    /\ last.err = "nil"
    /\ ~last.doFs
    /\ last.ret = "ok"
    /\ pc[last.w] = "idle"
    /\ mounted[last.vol] = 1
    /\ nMountTrue[last.vol] = 1
    /\ Cardinality(Dir(last.vol)) = 2

(***************************************************************************)
(* C24. As claimed: syscall.Mount is never issued for a volume whose       *)
(* overlay is mounted at that moment.                                      *)
(***************************************************************************)
C24_Step ==
    \A w \in Workers :
        (Moves(w, "m_mount") /\ last'.op = "mount") => mounted[req[w].vol] = 0

C24_NoMountWhileMounted == [][C24_Step]_vars

(***************************************************************************)
(* C25. An activate or deactivate for id X creates, rewrites or deletes    *)
(* only the record file named X: every other record file of the directory  *)
(* is there after the call exactly when it was there before, with the same *)
(* content and so the same count; this holds for calls that fail too.      *)
(***************************************************************************)
C25_Step ==
    \A id \in Ids :
        (ActivateStepOf(id) \/ DeactivateStepOf(id)) =>
            /\ \A other \in Ids \ {id} :
                   /\ other \in DOMAIN files'[RegVol] <=> other \in Dir(RegVol)
                   /\ other \in Dir(RegVol) => files'[RegVol][other] = files[RegVol][other]
            /\ \A v \in Volumes \ {RegVol} : files'[v] = files[v]

C25_Theorem == [][C25_Step]_vars

\* A's record was removed by its deactivate while B's record of count 2 stayed
C25_Witness ==
    /\ last = Step("deactivate", NoWorker, RegReq("A"), FALSE, "nil", "ok")
    /\ Dir(RegVol) = {"B"}
    /\ StoredCount(RegVol, "B") = 2
    /\ acts[RegVol]["A"] = 1
    /\ deacts[RegVol]["A"] = 1

(***************************************************************************)
(* The handlers under fair scheduling: every call a worker makes inside a  *)
(* handler returns, and a worker that waits in activemountsdir.Open gets   *)
(* the lock if the lock comes free again and again.                        *)
(***************************************************************************)
\* worker w takes its next step between Open and the deferred Close
HandlerStep(w) ==
    \/ MountActivate(w)
    \/ MountPreMount(w)
    \/ MountSyscall(w)
    \/ UnmountDeactivate(w)
    \/ UnmountSyscall(w)
    \/ UnmountPostUnmount(w)

\* worker w comes out of activemountsdir.Open, with the lock or with an error
OpenStep(w) == MountOpen(w) \/ UnmountOpen(w)

Fairness ==
    \A w \in Workers : WF_vars(HandlerStep(w)) /\ SF_vars(OpenStep(w))

\* the requests of the fair runs are all for one volume and one id: that is
\* where workers wait for each other
FairReq == [vol |-> RegVol, id |-> "A"]

MountBeginFair(w) ==
    MountBegin(w) /\ req'[w].vol = FairReq.vol /\ req'[w].id = FairReq.id

UnmountBeginFair(w) ==
    UnmountBegin(w) /\ req'[w].vol = FairReq.vol /\ req'[w].id = FairReq.id

NextFair ==
    \E w \in Workers :
        \/ MountBeginFair(w)
        \/ MountOpen(w)
        \/ MountActivate(w)
        \/ MountPreMount(w)
        \/ MountSyscall(w)
        \/ UnmountBeginFair(w)
        \/ UnmountOpen(w)
        \/ UnmountDeactivate(w)
        \/ UnmountSyscall(w)
        \/ UnmountPostUnmount(w)

SpecFair == Init /\ [][NextFair]_vars /\ Fairness

(***************************************************************************)
(* C26. Under fair scheduling, with every collaborator call returning, a   *)
(* request that waits for the lock of its volume gets the lock or fails    *)
(* with an error, a request that has started comes to its return, and a    *)
(* lock that is held is released; no handler stops half-way, and a         *)
(* registry call that returns no error leaves its record whole.            *)
(***************************************************************************)
C26_Completes ==
    /\ \A w \in Workers : Opening(w) ~> (lock[FairReq.vol] = w \/ pc[w] = "idle")
    /\ \A w \in Workers : (pc[w] # "idle") ~> (pc[w] = "idle")
    /\ (lock[FairReq.vol] # NoWorker) ~> (lock[FairReq.vol] = NoWorker)

\* a registry call inside a handler that returns no error leaves the caller's
\* record whole, and one that returns an error has changed nothing, unless the
\* error is that of the write itself
C26_WholeUpdate ==
    \A w \in Workers :
        (Moves(w, "m_activate") \/ Moves(w, "u_deactivate")) =>
            LET v == req[w].vol
                id == req[w].id
            IN  /\ (last'.err = "nil" /\ id \in DOMAIN files'[v]) =>
                      ~Unmarshal(files'[v][id]).err
                /\ (last'.err # "nil" /\ files' # files) => last'.err = "write"

LaterEntries == {boot.entries[j] : j \in (boot.i + 1)..Len(boot.entries)}

(***************************************************************************)
(* C27. When the boot reset of a volume fails with an error other than     *)
(* busy, NewDockerOnTop returns that error and no driver: the sweep stops  *)
(* at that volume, the volumes later in the listing are not visited and    *)
(* keep their registries, and the volumes reset earlier stay reset.        *)
(***************************************************************************)
C27_Step ==
    /\ (boot.pc = "loop" /\ boot.i <= Len(boot.entries) /\ boot' # boot
          /\ last'.err \notin {"nil", "EBUSY"}) =>
            /\ boot'.pc = "failed"
            /\ boot'.err = last'.err
            /\ last'.ret = "err"
            /\ last'.vol = boot.entries[boot.i]
            /\ boot'.i = boot.i
            /\ boot'.reset = boot.reset
            /\ boot'.skipped = boot.skipped
            /\ files' = files
    /\ (boot.pc = "loop" /\ boot.i <= Len(boot.entries)) =>
            \A v \in LaterEntries : files'[v] = files[v]
    /\ boot.pc = "failed" => (boot' = boot /\ files' = files)

C27_Stopped ==
    boot.pc = "failed" /\ boot.err = "EIO" =>
        /\ last.op = "bootreset"
        /\ boot.i <= Len(boot.entries)
        /\ LaterEntries \cap (boot.reset \cup boot.skipped) = {}
        /\ \A v \in boot.reset : files[v] = EmptyDir /\ mounted[v] = 0

C27_Theorem == [][C27_Step]_vars /\ []C27_Stopped

\* v1 was reset, the reset of v2 failed: no driver, v1 stays reset and v2
\* keeps the registry it had
C27_Witness ==
    /\ boot.pc = "failed"
    /\ boot.err = "EIO"
    /\ boot.entries = <<"v1", "v2">>
    /\ boot.i = 2
    /\ boot.reset = {"v1"}
    /\ Dir("v1") = {}
    /\ Dir("v2") = {"A", "B"}
====
